---- MODULE Spec2Model ----
(***************************************************************************)
(* A model of HtmlSiteStore                                                *)
(* (great_expectations/data_context/store/html_site_store.py): a facade    *)
(* that routes typed keys to one of four tuple store backends, tracks the  *)
(* keys written in a session, resolves URLs, and copies a tree of static   *)
(* assets into the static_assets backend.                                  *)
(*                                                                         *)
(* Every public method is one action which performs the whole method.      *)
(* The outcome of the last call is kept in op/arg/status/ret/calls, where  *)
(* calls is the ordered log of the backend operations the call invoked.    *)
(***************************************************************************)
EXTENDS Integers, Sequences, FiniteSets, TLC

\* ------------------------------------------------------------------ bounds
NumNames == 1
NumPayloads == 2
MaxCalls == 2

Names == {"s" \o ToString(i) : i \in 1..NumNames}
Payloads == {"p" \o ToString(i) : i \in 1..NumPayloads}
RunId == "r1"

\* ------------------------------------------------ classes and identifiers
ExpectationSuiteIdentifier == "ExpectationSuiteIdentifier"
ValidationResultIdentifier == "ValidationResultIdentifier"
SiteSectionIdentifier == "SiteSectionIdentifier"
\* A subclass of ExpectationSuiteIdentifier, a DataContextKey that is not
\* registered, and the builtin str.
SubExpectationSuiteIdentifier == "SubExpectationSuiteIdentifier"
BatchIdentifier == "BatchIdentifier"
StrClass == "str"

INDEX_PAGE == "index_page"
STATIC_ASSETS == "static_assets"

\* The keys of self.store_backends, in insertion order.
store_backends_keys ==
    <<ExpectationSuiteIdentifier, ValidationResultIdentifier, INDEX_PAGE, STATIC_ASSETS>>

BackendTags == {store_backends_keys[i] : i \in 1..Len(store_backends_keys)}

\* The registry keys that are classes (the others are plain strings).
ResourceKinds == {ExpectationSuiteIdentifier, ValidationResultIdentifier}

\* The classes an instance of class c is an instance of.
Mro(c) ==
    IF c = SubExpectationSuiteIdentifier
    THEN {SubExpectationSuiteIdentifier, ExpectationSuiteIdentifier}
    ELSE {c}

Resource(c, n, r) == [cls |-> c, name |-> n, run_id |-> r]

NoneValue == Resource("NoneType", "", "")

Resources ==
    {Resource(ExpectationSuiteIdentifier, n, "") : n \in Names}
    \cup {Resource(ValidationResultIdentifier, n, RunId) : n \in Names}
    \cup {Resource(SubExpectationSuiteIdentifier, "s1", ""),
          Resource(BatchIdentifier, "s1", ""),
          Resource(StrClass, INDEX_PAGE, ""),
          Resource(StrClass, STATIC_ASSETS, "")}

\* type(x)
TypeOf(x) == x.cls

\* isinstance(x, key_class) for key_class a class
isinstance(x, key_class) == key_class \in Mro(TypeOf(x))

\* resource_identifier.to_tuple()
to_tuple(r) ==
    IF ValidationResultIdentifier \in Mro(r.cls)
    THEN <<r.name, r.run_id>>
    ELSE <<r.name>>

\* Whether cls.from_tuple(tuple_) succeeds.
Decodable(cls, tuple_) ==
    IF cls = ValidationResultIdentifier THEN Len(tuple_) = 2 ELSE Len(tuple_) = 1

\* cls.from_tuple(tuple_), for a decodable tuple
from_tuple(cls, tuple_) ==
    IF cls = ValidationResultIdentifier
    THEN Resource(cls, tuple_[1], tuple_[2])
    ELSE Resource(cls, tuple_[1], "")

\* The section a SiteSectionIdentifier of this resource is built with.
SectionName(r) ==
    IF ValidationResultIdentifier \in Mro(r.cls) THEN "validations" ELSE "expectations"

\* A key object.  site = TRUE: a SiteSectionIdentifier wrapping resource r.
\* site = FALSE: the bare resource identifier r passed as a key.
Key(site, r) ==
    [site |-> site,
     site_section_name |-> IF site THEN SectionName(r) ELSE "",
     resource_identifier |-> r]

KeyInputs == {Key(TRUE, r) : r \in Resources}
             \cup {Key(FALSE, Resource(ExpectationSuiteIdentifier, "s1", ""))}

\* key.to_tuple() of a SiteSectionIdentifier
key_to_tuple(key) == <<key.site_section_name>> \o to_tuple(key.resource_identifier)

\* --------------------------------------------------------------- backends
Absent == "<absent>"
HtmlType == "text/html; charset=utf-8"

Entry(k, v, ct, ce) == [k |-> k, v |-> v, content_type |-> ct, content_encoding |-> ce]

\* backend.get(k)
BackendGet(contents, k) ==
    IF \E e \in contents : e.k = k
    THEN (CHOOSE e \in contents : e.k = k).v
    ELSE Absent

\* backend.set(k, v, content_encoding=ce, content_type=ct)
BackendSet(contents, k, v, ct, ce) ==
    {e \in contents : e.k # k} \cup {Entry(k, v, ct, ce)}

\* A sequence holding the elements of a finite set, each once.
RECURSIVE SetToSeq(_)
SetToSeq(S) ==
    IF S = {} THEN <<>>
    ELSE LET x == CHOOSE y \in S : TRUE IN <<x>> \o SetToSeq(S \ {x})

\* backend.list_keys()
BackendListKeys(contents) == SetToSeq({e.k : e \in contents})

\* The path a backend stores a key under: filepath_prefix / key + suffix,
\* or the fixed filepath_template.
FilePath(tag, k) ==
    IF tag = ExpectationSuiteIdentifier THEN <<"expectations">> \o k \o <<".html">>
    ELSE IF tag = ValidationResultIdentifier THEN <<"validations">> \o k \o <<".html">>
    ELSE IF tag = INDEX_PAGE THEN <<"index.html">>
    ELSE k

\* backend.get_url_for_key(k)
get_url_for_key(tag, k) == [scheme |-> "file", path |-> FilePath(tag, k)]

Call(tag, method, k) == [backend |-> tag, method |-> method, key |-> k]

\* ------------------------------------------------------------------ state
VARIABLES
    store_backends,   \* tag -> the contents of that backend (a set of entries)
    keys,             \* self.keys
    op, arg,          \* the last call and its arguments
    status,           \* "ok" or the exception the last call raised
    ret,              \* the value the last call returned
    calls,            \* the backend operations the last call invoked, in order
    ncalls            \* number of calls made so far

vars == <<store_backends, keys, op, arg, status, ret, calls, ncalls>>

Init ==
    /\ store_backends = [t \in BackendTags |-> {}]
    /\ keys = {}
    /\ op = "__init__"
    /\ arg = NoneValue
    /\ status = "ok"
    /\ ret = NoneValue
    /\ calls = <<>>
    /\ ncalls = 0

\* The outcome of a call that changes no state of the store.
Outcome(o, a, s, r, c) ==
    /\ op' = o
    /\ arg' = a
    /\ status' = s
    /\ ret' = r
    /\ calls' = c
    /\ ncalls' = ncalls + 1

\* --------------------------------------------------------- _validate_key
\* isinstance(resource, key_class) inside the try block: a key_class that is
\* not a type raises TypeError, which the loop skips.
\* Variant: a registry key that is not a type is compared with the resource.
KeyClassMatches_StringTagEquals(r, key_class) ==
    IF key_class \in ResourceKinds THEN isinstance(r, key_class) ELSE r.name = key_class

KeyClassMatches(r, key_class) ==
    IF key_class \in ResourceKinds THEN isinstance(r, key_class) ELSE FALSE

_validate_key(key) ==
    IF ~key.site THEN "TypeError"
    ELSE IF \E i \in 1..Len(store_backends_keys) :
                KeyClassMatches(key.resource_identifier, store_backends_keys[i])
         THEN "ok"
         ELSE "TypeError"

\* self.store_backends[type(key.resource_identifier)]
SelectBackend(key) ==
    IF TypeOf(key.resource_identifier) \in BackendTags
    THEN TypeOf(key.resource_identifier)
    ELSE "KeyError"

\* -------------------------------------------------------------------- get
Get(key) ==
    /\ ncalls < MaxCalls
    /\ LET a == [key |-> key]
           b == SelectBackend(key)
       IN  IF _validate_key(key) # "ok"
           THEN Outcome("get", a, "TypeError", NoneValue, <<>>)
           ELSE IF b = "KeyError"
           THEN Outcome("get", a, "KeyError", NoneValue, <<>>)
           ELSE Outcome("get", a, "ok",
                        BackendGet(store_backends[b], key_to_tuple(key)),
                        <<Call(b, "get", key_to_tuple(key))>>)
    /\ UNCHANGED <<store_backends, keys>>

\* -------------------------------------------------------------------- set
\* Variant: the tracker is replaced instead of extended.
keys_add_Replace(ks, key) == {key}

\* self.keys.add(key)
keys_add(ks, key) == ks \cup {key}

\* fail: the backend write raises.
Set(key, serialized_value, fail) ==
    /\ ncalls < MaxCalls
    /\ LET a == [key |-> key, value |-> serialized_value, fail |-> fail]
           b == SelectBackend(key)
           k == to_tuple(key.resource_identifier)
       IN  IF _validate_key(key) # "ok"
           THEN /\ Outcome("set", a, "TypeError", NoneValue, <<>>)
                /\ UNCHANGED <<store_backends, keys>>
           ELSE /\ keys' = keys_add(keys, key)
                /\ IF b = "KeyError"
                   THEN /\ Outcome("set", a, "KeyError", NoneValue, <<>>)
                        /\ UNCHANGED store_backends
                   ELSE IF fail
                   THEN /\ Outcome("set", a, "BackendError", NoneValue,
                                   <<Call(b, "set", k)>>)
                        /\ UNCHANGED store_backends
                   ELSE /\ Outcome("set", a, "ok", FilePath(b, k),
                                   <<Call(b, "set", k)>>)
                        /\ store_backends' =
                             [store_backends EXCEPT
                                ![b] = BackendSet(@, k, serialized_value, HtmlType, "utf-8")]

\* ----------------------------------------------------- get_url_for_resource
\* Variant: a validation result is resolved on the expectation suite backend.
UrlTarget_WrongBackend(resource_identifier) ==
    IF resource_identifier = NoneValue
    THEN Call(INDEX_PAGE, "get_url_for_key", <<>>)
    ELSE IF isinstance(resource_identifier, ExpectationSuiteIdentifier)
    THEN Call(ExpectationSuiteIdentifier, "get_url_for_key", to_tuple(resource_identifier))
    ELSE IF isinstance(resource_identifier, ValidationResultIdentifier)
    THEN Call(ExpectationSuiteIdentifier, "get_url_for_key", to_tuple(resource_identifier))
    ELSE Call("ValueError", "", <<>>)

\* The backend and key the URL is asked of, or "ValueError".
UrlTarget(resource_identifier) ==
    IF resource_identifier = NoneValue
    THEN Call(INDEX_PAGE, "get_url_for_key", <<>>)
    ELSE IF isinstance(resource_identifier, ExpectationSuiteIdentifier)
    THEN Call(ExpectationSuiteIdentifier, "get_url_for_key", to_tuple(resource_identifier))
    ELSE IF isinstance(resource_identifier, ValidationResultIdentifier)
    THEN Call(ValidationResultIdentifier, "get_url_for_key", to_tuple(resource_identifier))
    ELSE Call("ValueError", "", <<>>)

UrlInputs ==
    Resources \cup {NoneValue,
                    Resource(SiteSectionIdentifier, "s1", ""),
                    Resource("tuple", "static", "")}

get_url_for_resource(resource_identifier) ==
    /\ ncalls < MaxCalls
    /\ LET a == [resource_identifier |-> resource_identifier]
           t == UrlTarget(resource_identifier)
       IN  IF t.backend = "ValueError"
           THEN Outcome("get_url_for_resource", a, "ValueError", NoneValue, <<>>)
           ELSE Outcome("get_url_for_resource", a, "ok",
                        get_url_for_key(t.backend, t.key), <<t>>)
    /\ UNCHANGED <<store_backends, keys>>

\* -------------------------------------------------------------- list_keys
\* The local variables of list_keys before the loop; key_tuples is unbound.
ListKeysStart ==
    [keys |-> <<>>, key_tuples |-> <<>>, bound |-> FALSE, status |-> "ok", calls |-> <<>>]

\* One iteration of the loop over self.store_backends.items().
\* unsupported: the backends whose list_keys raises NotImplementedError.
\* decode_error: the exception a decoder raises on a tuple it cannot decode.
ListKeysStep(st, type_, unsupported, decode_error) ==
    IF st.status # "ok" THEN st
    ELSE
      LET listed == type_ \notin unsupported
          kt == IF listed THEN BackendListKeys(store_backends[type_]) ELSE st.key_tuples
          st1 == [st EXCEPT !.key_tuples = kt,
                            !.bound = st.bound \/ listed,
                            !.calls = Append(st.calls, Call(type_, "list_keys", <<>>))]
      IN  IF type_ \notin ResourceKinds
          THEN st1     \* issubclass(type_, DataContextKey) raises TypeError: pass
          ELSE IF ~st1.bound
          THEN [st1 EXCEPT !.status = "UnboundLocalError"]
          ELSE IF \A i \in 1..Len(kt) : Decodable(type_, kt[i])
          THEN [st1 EXCEPT !.keys = @ \o [i \in 1..Len(kt) |-> from_tuple(type_, kt[i])]]
          ELSE IF decode_error = "TypeError"
          THEN st1     \* except TypeError: pass
          ELSE [st1 EXCEPT !.status = decode_error]

RECURSIVE ListKeysLoop(_, _, _, _)
ListKeysLoop(st, i, unsupported, decode_error) ==
    IF i > Len(store_backends_keys) THEN st
    ELSE ListKeysLoop(ListKeysStep(st, store_backends_keys[i], unsupported, decode_error),
                      i + 1, unsupported, decode_error)

DecodeErrors == {"TypeError", "ValueError"}

\* The sets of backends that do not support listing which are considered.
Unsupported == {{}, BackendTags} \cup {{t} : t \in BackendTags}

list_keys(unsupported, decode_error) ==
    /\ ncalls < MaxCalls
    /\ LET a == [unsupported |-> unsupported, decode_error |-> decode_error]
           st == ListKeysLoop(ListKeysStart, 1, unsupported, decode_error)
       IN  Outcome("list_keys", a, st.status,
                   IF st.status = "ok" THEN st.keys ELSE <<>>, st.calls)
    /\ UNCHANGED <<store_backends, keys>>

\* -------------------------------------------------------- write_index_page
write_index_page(page, fail) ==
    /\ ncalls < MaxCalls
    /\ LET a == [page |-> page, fail |-> fail]
           c == <<Call(INDEX_PAGE, "set", <<>>)>>
       IN  IF fail
           THEN /\ Outcome("write_index_page", a, "BackendError", NoneValue, c)
                /\ UNCHANGED store_backends
           ELSE /\ Outcome("write_index_page", a, "ok", FilePath(INDEX_PAGE, <<>>), c)
                /\ store_backends' =
                     [store_backends EXCEPT
                        ![INDEX_PAGE] = BackendSet(@, <<>>, page, HtmlType, "utf-8")]
    /\ UNCHANGED keys

\* ------------------------------------------------------ copy_static_assets
\* A path is the sequence of its segments, as str.split(os.sep) gives them:
\* an absolute path starts with the empty segment.
file_exclusions == {".DS_Store"}

\* The directory holding html_site_store.py
ModuleDir == <<"", "great_expectations", "data_context", "store">>

\* file_relative_path(__file__, os.path.join("..", "..", "render", "view", "static"))
DefaultStaticDir == ModuleDir \o <<"..", "..", "render", "view", "static">>

\* os.path.normpath, one segment at a time
NormStep(acc, seg) ==
    IF seg = "." THEN acc
    ELSE IF seg = ".." /\ Len(acc) > 0 /\ acc[Len(acc)] \notin {"..", ""}
    THEN SubSeq(acc, 1, Len(acc) - 1)
    ELSE IF seg = ".." /\ Len(acc) > 0 /\ acc[Len(acc)] = ""
    THEN acc
    ELSE Append(acc, seg)

RECURSIVE NormFrom(_, _, _)
NormFrom(path, i, acc) ==
    IF i > Len(path) THEN acc ELSE NormFrom(path, i + 1, NormStep(acc, path[i]))

normpath(path) == NormFrom(path, 1, <<>>)

\* store_key.index('static'): the first position holding "static", 0 if none
IndexOfStatic(store_key) ==
    IF \E i \in 1..Len(store_key) : store_key[i] = "static"
    THEN CHOOSE i \in 1..Len(store_key) :
            /\ store_key[i] = "static"
            /\ \A j \in 1..(i - 1) : store_key[j] # "static"
    ELSE 0

\* store_key[store_key.index('static'):]
AnchoredKey(source_name) ==
    LET store_key == normpath(source_name)
    IN  SubSeq(store_key, IndexOfStatic(store_key), Len(store_key))

\* str.endswith
endswith(str, suffix) ==
    /\ Len(str) >= Len(suffix)
    /\ SubSeq(str, Len(str) - Len(suffix) + 1, Len(str)) = suffix

\* mimetypes.guess_type(item, strict=False)[0]; "None" when it cannot tell
guess_type(item) == IF endswith(item, ".css") THEN "text/css" ELSE "None"

ContentType(source_name) ==
    LET item == source_name[Len(source_name)]
    IN  IF guess_type(item) # "None" THEN guess_type(item)
        ELSE IF endswith(item, ".otf") THEN "font/opentype"
        ELSE "text/html; charset=utf8"

\* The files below the source directory, in the order the recursive walk
\* reaches them; each is its path relative to the source directory.
\* fault: the position of the file whose open()/read() or backend write
\* raises (0: none), and which of the two.
RECURSIVE CopyFrom(_, _, _, _, _)
CopyFrom(dir, files, i, fault, st) ==
    IF i > Len(files) \/ st.status # "ok" THEN st
    ELSE
      LET item == files[i][Len(files[i])]
          source_name == dir \o files[i]
          store_key == AnchoredKey(source_name)
          c == Call(STATIC_ASSETS, "set", store_key)
      IN  IF item \in file_exclusions
          THEN CopyFrom(dir, files, i + 1, fault, st)
          ELSE IF fault.at = i /\ fault.kind = "IOError"
          THEN [st EXCEPT !.status = "IOError"]
          ELSE IF IndexOfStatic(normpath(source_name)) = 0
          THEN [st EXCEPT !.status = "ValueError"]
          ELSE IF fault.at = i
          THEN [st EXCEPT !.status = "BackendError", !.calls = Append(@, c)]
          ELSE CopyFrom(dir, files, i + 1, fault,
                        [st EXCEPT !.calls = Append(@, c),
                                   !.contents = BackendSet(@, store_key, "bytes",
                                                           ContentType(source_name), "None")])

SourceDirs ==
    {<<>>,                                   \* not given: the bundled directory
     <<"", "srv", "static">>,
     <<"", "static", "app", "static">>,
     <<"", "srv", "assets">>}

\* The walks of the source trees considered: the files below the source
\* directory in the order os.listdir and the recursion reach them.
Walks ==
    {<<<<"css", "x.css">>>>,
     <<<<"static", "x.css">>, <<"a.otf">>>>,
     <<<<".DS_Store">>, <<"a.otf">>>>,
     <<<<"LICENSE">>, <<".DS_Store">>, <<"css", "x.css">>>>}

FaultKinds == {"IOError", "BackendError"}

Faults(files) == {[at |-> 0, kind |-> "None"]} \cup [at : 1..Len(files), kind : FaultKinds]

copy_static_assets(static_assets_source_dir, files, fault) ==
    /\ ncalls < MaxCalls
    /\ LET dir == IF static_assets_source_dir = <<>>
                  THEN DefaultStaticDir ELSE static_assets_source_dir
           a == [static_assets_source_dir |-> static_assets_source_dir,
                 files |-> files, fault |-> fault]
           st == CopyFrom(dir, files, 1, fault,
                          [status |-> "ok", calls |-> <<>>,
                           contents |-> store_backends[STATIC_ASSETS]])
       IN  /\ Outcome("copy_static_assets", a, st.status, NoneValue, st.calls)
           /\ store_backends' = [store_backends EXCEPT ![STATIC_ASSETS] = st.contents]
    /\ UNCHANGED keys

\* ----------------------------------------------------- the shared storage
\* Another writer of the storage a resource backend lists puts a file there.
ForeignTuple == <<"tmp", "x", "y">>

ExternalWrite(tag) ==
    /\ ncalls < MaxCalls
    /\ Outcome("external", [backend |-> tag], "ok", NoneValue, <<>>)
    /\ store_backends' =
         [store_backends EXCEPT ![tag] = BackendSet(@, ForeignTuple, "bytes", "None", "None")]
    /\ UNCHANGED keys

Next ==
    \/ \E key \in KeyInputs : Get(key)
    \/ \E key \in KeyInputs, v \in Payloads, fail \in BOOLEAN : Set(key, v, fail)
    \/ \E r \in UrlInputs : get_url_for_resource(r)
    \/ \E u \in Unsupported, d \in DecodeErrors : list_keys(u, d)
    \/ \E page \in Payloads, fail \in BOOLEAN : write_index_page(page, fail)
    \/ \E d \in SourceDirs, w \in Walks : \E f \in Faults(w) : copy_static_assets(d, w, f)
    \/ \E tag \in ResourceKinds : ExternalWrite(tag)

Spec == Init /\ [][Next]_vars

\* ================================================================= claims

\* C1: round trip.  A successful set(k, v) immediately followed by get(k) on
\* the same store returns v: get reads the tuple key that set wrote.
C1_RoundTrip ==
    [][(/\ op = "set" /\ status = "ok"
        /\ op' = "get" /\ arg'.key = arg.key)
       => (status' = "ok" /\ ret' = arg.value)]_vars

\* C2: rejection.  A get or set with a key that is not a SiteSectionIdentifier,
\* or whose resource is not an instance of a registered resource kind (the
\* strings "index_page" and "static_assets" included), raises TypeError,
\* invokes no backend operation, and leaves the tracker and all backends as
\* they were.
C2_Rejection ==
    [][LET key == arg'.key
           rejected == \/ ~key.site
                       \/ \A k \in ResourceKinds :
                             k \notin Mro(key.resource_identifier.cls)
       IN  (op' \in {"get", "set"} /\ rejected)
           => /\ status' = "TypeError"
              /\ calls' = <<>>
              /\ keys' = keys
              /\ store_backends' = store_backends]_vars

\* C2 witness: a set with the string "index_page" as resource was rejected
\* while the tracker and a backend already held something.
C2_Witness ==
    /\ op = "set"
    /\ arg.key.site
    /\ arg.key.resource_identifier = Resource(StrClass, INDEX_PAGE, "")
    /\ status = "TypeError"
    /\ keys # {}
    /\ store_backends[ExpectationSuiteIdentifier] # {}

\* C3: enumeration resilience.  When exactly one backend does not support
\* listing (and every stored tuple is decodable by its own kind), list_keys
\* succeeds and returns exactly the entries of the other resource-kind
\* backends, each decoded by its own kind's decoder.
C3_EnumerationResilience ==
    (/\ op = "list_keys"
     /\ Cardinality(arg.unsupported) = 1
     /\ \A k \in ResourceKinds : \A e \in store_backends[k] : Decodable(k, e.k))
    => LET Listed(k) ==
               IF k \in arg.unsupported THEN <<>>
               ELSE LET kt == BackendListKeys(store_backends[k])
                    IN  [i \in 1..Len(kt) |-> from_tuple(k, kt[i])]
       IN  /\ status = "ok"
           /\ ret = Listed(ExpectationSuiteIdentifier) \o Listed(ValidationResultIdentifier)

\* C4: list_keys never enumerates a synthetic-tag backend: it invokes
\* list_keys only on the backends of the resource kinds, and nothing stored
\* in the index_page or static_assets backend appears in its result.
C4_NoSyntheticEnumeration ==
    op = "list_keys"
    => /\ \A i \in 1..Len(calls) : calls[i].backend \in ResourceKinds
       /\ \A i \in 1..Len(ret) : \A t \in {INDEX_PAGE, STATIC_ASSETS} :
             to_tuple(ret[i]) \notin {e.k : e \in store_backends[t]}

\* C5: decode failures are surfaced.  When every backend supports listing and
\* a resource-kind backend lists a tuple its decoder cannot decode, list_keys
\* fails with the decoder's error, whatever its type.
C5_DecodeFailureSurfaced ==
    (/\ op = "list_keys"
     /\ arg.unsupported = {}
     /\ \E k \in ResourceKinds : \E e \in store_backends[k] : ~Decodable(k, e.k))
    => status = arg.decode_error

C7_TrackerLifecycle ==
    [][/\ (ncalls = 0 => keys = {})
       /\ keys \subseteq keys'
       /\ LET valid == /\ arg'.key.site
                       /\ \E k \in ResourceKinds :
                             k \in Mro(arg'.key.resource_identifier.cls)
          IN  IF op' = "set" /\ valid
              THEN keys' = keys \cup {arg'.key}
              ELSE keys' = keys]_vars

\* C7 witness: a phantom key.  The backend write of a set failed; its key is
\* tracked next to an older one while the backend holds no value for it.
C7_Witness ==
    /\ op = "set"
    /\ status = "BackendError"
    /\ arg.key \in keys
    /\ Cardinality(keys) >= 2
    /\ BackendGet(store_backends[arg.key.resource_identifier.cls],
                  to_tuple(arg.key.resource_identifier)) = Absent

\* C8: static asset anchoring is location independent.  Copying the tree
\* whose top directory is named static writes, for every file that is not
\* excluded, the key ("static",) + the file's path below that directory,
\* whatever segments lie above the directory.
C8_AnchoringLocationIndependent ==
    op = "copy_static_assets"
    => LET dir == normpath(IF arg.static_assets_source_dir = <<>>
                           THEN DefaultStaticDir ELSE arg.static_assets_source_dir)
           visited == SelectSeq(arg.files,
                                LAMBDA f : f[Len(f)] \notin file_exclusions)
       IN  dir[Len(dir)] = "static"
           => \A i \in 1..Len(calls) : calls[i].key = <<"static">> \o visited[i]

\* C9: missing anchor and partial failure.  When the copy reaches a file
\* whose normalized path has no segment "static", it aborts with a
\* ConfigurationError, issues no write for that file or a later one, and
\* what it wrote before stays in the static_assets backend; after an abort
\* by a read or write error the earlier writes stay as well.
C9_MissingAnchorAborts ==
    op = "copy_static_assets"
    => LET dir == IF arg.static_assets_source_dir = <<>>
                  THEN DefaultStaticDir ELSE arg.static_assets_source_dir
           files == arg.files
           Visited(i) == files[i][Len(files[i])] \notin file_exclusions
           NoAnchor(i) == \A j \in 1..Len(normpath(dir \o files[i])) :
                             normpath(dir \o files[i])[j] # "static"
           Reached(i) == \A j \in 1..(i - 1) :
                             Visited(j) => (~NoAnchor(j) /\ arg.fault.at # j)
           Before(i) == Cardinality({j \in 1..(i - 1) : Visited(j)})
           Stored == {e.k : e \in store_backends[STATIC_ASSETS]}
       IN  /\ \A i \in 1..Len(files) :
                (/\ Visited(i) /\ NoAnchor(i) /\ Reached(i)
                 /\ ~(arg.fault.at = i /\ arg.fault.kind = "IOError"))
                => /\ status = "ConfigurationError"
                   /\ Len(calls) = Before(i)
                   /\ \A c \in 1..Len(calls) : calls[c].key \in Stored
           /\ status \in {"IOError", "BackendError"}
              => \A c \in 1..(Len(calls) - (IF status = "BackendError" THEN 1 ELSE 0)) :
                    calls[c].key \in Stored

\* C10: validation implies routability.  A get or set whose key passes
\* validation is routed to the backend of the registered kind its resource is
\* an instance of and never fails with a lookup error; every tracked key has
\* a backend.
C10_ValidationImpliesRoutable ==
    /\ (op \in {"get", "set"} /\ status # "TypeError")
       => /\ status # "KeyError"
          /\ Len(calls) = 1
          /\ calls[1].backend \in ResourceKinds
          /\ calls[1].backend \in Mro(arg.key.resource_identifier.cls)
    /\ \A key \in keys : key.resource_identifier.cls \in BackendTags
====
